---- MODULE Spec2Model ----
(***************************************************************************)
(* Model of the Raktar recipe client: the timeout wrapper and the API      *)
(* client of utils/api.ts, the favourites store of                         *)
(* hooks/useFavourites.ts, the navigation and the search session of        *)
(* App.tsx, the submissions of pages/Search/Search.tsx, and the loads of   *)
(* pages/Home and pages/RecipeDetail.                                      *)
(*                                                                         *)
(* The specifications, one per component, share the variables; each        *)
(* leaves the other components' variables unchanged:                       *)
(*   SpecTimeout     calls of timeout(fn, timeoutMs, timeoutMessage)       *)
(*   SpecFav         the useFavourites hook inside its rendering           *)
(*                   component, started on a slot the hook wrote           *)
(*   SpecFavTraced   SpecFav with the observer of the calls made per id    *)
(*   SpecFavForeign  SpecFav started on a slot that may hold any text      *)
(*   SpecApi         one call of fetchRandomRecipes, fetchRecipeById or    *)
(*                   searchRecipes against the backend                     *)
(*   SpecNav         calls of navigate and goBack                          *)
(*   SpecSession     calls of setSearchState and the re-renders of App     *)
(*   SpecSearch      submissions of the search page through timeout;       *)
(*                   SpecSearchLive adds the fairness of the event loop    *)
(*   SpecSearchPage  SpecSearch with the edits of the name field           *)
(*   SpecApp         navigation, session updates and favourites together   *)
(*   SpecHome        the loads of the home page through timeout            *)
(*   SpecDetail      the lookups of the detail page; SpecDetailLive adds   *)
(*                   the fairness of the promise reactions                 *)
(***************************************************************************)
EXTENDS Integers, Sequences, FiniteSets, TLC

VARIABLES
    \* ---- timeout(fn, timeoutMs, timeoutMessage), one closure per call
    called,         \* called[c]: timeout() has been invoked for call c
    timeoutMessage, \* timeoutMessage[c]: the message argument of call c
    timedOut,       \* timedOut[c]: the closure's flag
    timer,          \* timer[c]: "none", "pending", "fired" or "cleared"
    fnPromise,      \* fnPromise[c]: the state of what fn() produced
    result,         \* result[c]: the promise timeout() returned
    chain,          \* chain[c]: the promise fn().then(..).catch(..)
    microtasks,     \* the job queue of promise reactions, in order
    forwarded,      \* forwarded[c]: the resolve/reject calls the closure made
    firstFired,     \* firstFired[c]: the completion source that fired first
    \* ---- useFavourites
    started,        \* the hook has run its first render
    favourites,     \* the hook state, pending updates applied
    isArray,        \* the hook state is an array (`favourites` is its content)
    shown,          \* the `favourites` binding of the current render
    renderPending,  \* a re-render is scheduled
    storage,        \* the localStorage slot FAVOURITES_KEY
    writeFailed,    \* the last run of the effect logged a write error
    thrown,         \* a call of the hook's functions threw to its caller
    trace,          \* trace[id]: the calls made for id so far (an observer)
    \* ---- API client
    call,           \* the top-level API call in progress
    requests,       \* every request issued, in order, with its response
    outcome,        \* the promise the top-level call returned
    \* ---- App: navigation
    currentPath,    \* the state `currentPath`
    prevPath,       \* the state `prevPath`
    hash,           \* window.location.hash
    navCalls,       \* the last calls of navigate and goBack (an observer)
    \* ---- App: search session
    searchState,    \* the state `searchState`, pending updates applied
    shownSession,   \* the `searchState` binding of the current render
    sessionPending, \* a re-render of the session is scheduled
    \* ---- Search page
    consumer,       \* consumer[c]: the .then/.catch chain a submission
                    \* attached to the promise of timeout call c
    applied,        \* applied[c]: the session updates submission c made
    \* ---- Home page
    home,           \* the state of Home: `meals`, `loading`, `error`
    homeLoads,      \* homeLoads[c]: the .then/.catch/.finally chain a load
                    \* attached to the promise of timeout call c
    \* ---- RecipeDetail page
    detail,         \* the component: mounted or not, its prop `mealId` and
                    \* its state `meal`, `loading`, `error`
    lookups         \* lookups[k]: the k-th fetchRecipeById of the effect and
                    \* the .then/.catch/.finally chain attached to it

timeoutVars == <<called, timeoutMessage, timedOut, timer, fnPromise, result,
                 chain, microtasks, forwarded, firstFired>>
favVars == <<started, favourites, isArray, shown, renderPending, storage,
            writeFailed, thrown, trace>>
apiVars == <<call, requests, outcome>>
navVars == <<currentPath, prevPath, hash, navCalls>>
sessionVars == <<searchState, shownSession, sessionPending>>
searchVars == <<consumer, applied>>
pageVars == <<home, homeLoads, detail, lookups>>
appVars == <<navVars, sessionVars, searchVars, pageVars>>
vars == <<timeoutVars, favVars, apiVars, appVars>>

(***************************************************************************)
(* Bounds of the model.                                                    *)
(***************************************************************************)
MaxCalls == 2       \* concurrent calls of timeout()
MaxFavs == 2        \* longest favourites list explored
MaxCount == 2       \* largest count given to fetchRandomRecipes directly
MaxResults == 2     \* longest record list in one backend response
MaxHistory == 3     \* how many navigation calls the observer remembers

Calls == 1 .. MaxCalls
Values == {"v1", "v2"}          \* what fn's promise can fulfil with
Errors == {"e1"}                \* what fn can reject with or throw
Messages == {"too long"}        \* the timeoutMessage argument

(***************************************************************************)
(* utils/api.ts: timeout                                                   *)
(***************************************************************************)
Unsettled == [tag |-> "unsettled", val |-> ""]
Fulfilled(v) == [tag |-> "fulfilled", val |-> v]
Rejected(e) == [tag |-> "rejected", val |-> e]

\* resolve(x) / reject(x) of `new Promise`: the first call settles the
\* promise, every later call is ignored.
Settle(p, outcomeOfCall) == IF p.tag = "unsettled" THEN outcomeOfCall ELSE p

\* The queued promise reactions that belong to call c.
JobsOf(c) == {i \in 1 .. Len(microtasks) : microtasks[i].call = c}

\* Timers and network completions are tasks: the event loop starts one only
\* when the microtask queue is empty.
\* A reaction of the chain a caller attached to the promise timeout()
\* returned is queued: the promise has settled, or the derived promise of
\* the caller's .then has.
ReactionQueued(c) ==
    \/ consumer[c].stage = "attached" /\ result[c].tag /= "unsettled"
    \/ consumer[c].stage = "passing"
    \/ homeLoads[c].stage = "attached" /\ result[c].tag /= "unsettled"
    \/ homeLoads[c].stage \in {"passing", "finishing"}

TaskMayRun == microtasks = <<>> /\ \A c \in Calls : ~ReactionQueued(c)

\* `if (timedOut) return;` of the .then handler (line 223): TRUE when the
\* handler returns without clearTimeout and resolve.
ThenSkips_Never(c) == FALSE
ThenSkips(c) == timedOut[c]

\* `if (timedOut) return;` of the .catch handler (line 234).
CatchSkips_Inverted(c) == ~timedOut[c]
CatchSkips(c) == timedOut[c]

\* The error the deadline timer rejects with: new Error(timeoutMessage).
TimerError(c) == timeoutMessage[c]

\* timeout(fn, timeoutMs, timeoutMessage): the Promise executor. It clears
\* the flag, starts the timer and invokes fn. fn either returns a promise, to
\* which the .then/.catch reactions are attached, or throws: an exception in
\* the executor rejects the returned promise, and the lines after the throw
\* (none of which touch the timer) do not run.
Executor(c, msg, throws, e) ==
    /\ TaskMayRun
    /\ ~called[c]
    /\ called' = [called EXCEPT ![c] = TRUE]
    /\ timeoutMessage' = [timeoutMessage EXCEPT ![c] = msg]
    /\ timedOut' = [timedOut EXCEPT ![c] = FALSE]
    /\ timer' = [timer EXCEPT ![c] = "pending"]
    /\ IF throws
         THEN /\ fnPromise' = [fnPromise EXCEPT ![c] = [tag |-> "threw", val |-> e]]
              /\ result' = [result EXCEPT ![c] = Settle(@, Rejected(e))]
              /\ firstFired' = [firstFired EXCEPT ![c] = "op"]
         ELSE /\ fnPromise' = [fnPromise EXCEPT ![c] = [tag |-> "pending", val |-> ""]]
              /\ UNCHANGED <<result, firstFired>>
    /\ UNCHANGED <<chain, microtasks, forwarded>>

\* timeout(...) called on its own.
timeout(c, msg, throws, e) ==
    /\ Executor(c, msg, throws, e)
    /\ UNCHANGED <<favVars, apiVars, appVars>>

\* The setTimeout callback (lines 214-217).
TimerFires(c) ==
    /\ TaskMayRun
    /\ timer[c] = "pending"
    /\ timer' = [timer EXCEPT ![c] = "fired"]
    /\ timedOut' = [timedOut EXCEPT ![c] = TRUE]
    /\ result' = [result EXCEPT ![c] = Settle(@, Rejected(TimerError(c)))]
    /\ forwarded' = [forwarded EXCEPT
                       ![c] = Append(@, [by |-> "timer", out |-> Rejected(TimerError(c))])]
    /\ firstFired' = [firstFired EXCEPT ![c] = IF @ = "none" THEN "timer" ELSE @]
    /\ UNCHANGED <<called, timeoutMessage, fnPromise, chain, microtasks>>
    /\ UNCHANGED <<favVars, apiVars, appVars>>

\* The promise fn returned settles: the reaction of .then is queued.
FnSettles(c, out) ==
    /\ TaskMayRun
    /\ fnPromise[c].tag = "pending"
    /\ fnPromise' = [fnPromise EXCEPT ![c] = out]
    /\ microtasks' = Append(microtasks, [call |-> c, kind |-> "then", settled |-> out])
    /\ firstFired' = [firstFired EXCEPT ![c] = IF @ = "none" THEN "op" ELSE @]
    /\ UNCHANGED <<called, timeoutMessage, timedOut, timer, result, chain, forwarded>>
    /\ UNCHANGED <<favVars, apiVars, appVars>>

FnFulfils(c, v) == FnSettles(c, Fulfilled(v))
FnRejects(c, e) == FnSettles(c, Rejected(e))

\* What both handlers do when they do not skip: clearTimeout(timer), then
\* resolve(data) in .then (lines 227-230), reject(err) in .catch (lines
\* 238-241).
Forward(c, by, out) ==
    /\ timer' = [timer EXCEPT ![c] = IF @ = "pending" THEN "cleared" ELSE @]
    /\ result' = [result EXCEPT ![c] = Settle(@, out)]
    /\ forwarded' = [forwarded EXCEPT ![c] = Append(@, [by |-> by, out |-> out])]

\* Reaction of fn().then(onFulfilled): onFulfilled runs on fulfilment and
\* the derived promise fulfils with its return value (undefined); a rejection
\* passes through to the derived promise. Either way .catch's reaction is
\* queued next.
RunThenReaction ==
    /\ microtasks /= <<>>
    /\ Head(microtasks).kind = "then"
    /\ LET job == Head(microtasks)
           c == job.call
       IN  IF job.settled.tag = "fulfilled"
             THEN /\ IF ThenSkips(c)
                       THEN UNCHANGED <<timer, result, forwarded>>
                       ELSE Forward(c, "then", job.settled)
                  /\ microtasks' = Append(Tail(microtasks),
                        [call |-> c, kind |-> "catch", settled |-> Fulfilled("undefined")])
             ELSE /\ UNCHANGED <<timer, result, forwarded>>
                  /\ microtasks' = Append(Tail(microtasks),
                        [call |-> c, kind |-> "catch", settled |-> job.settled])
    /\ UNCHANGED <<called, timeoutMessage, timedOut, fnPromise, chain, firstFired>>
    /\ UNCHANGED <<favVars, apiVars, appVars>>

\* Reaction of .catch(onRejected): onRejected runs on rejection; it returns
\* normally, so the chain's last promise fulfils in both cases.
RunCatchReaction ==
    /\ microtasks /= <<>>
    /\ Head(microtasks).kind = "catch"
    /\ LET job == Head(microtasks)
           c == job.call
       IN  /\ IF job.settled.tag = "rejected" /\ ~CatchSkips(c)
                THEN Forward(c, "catch", job.settled)
                ELSE UNCHANGED <<timer, result, forwarded>>
           /\ chain' = [chain EXCEPT ![c] = "fulfilled"]
    /\ microtasks' = Tail(microtasks)
    /\ UNCHANGED <<called, timeoutMessage, timedOut, fnPromise, firstFired>>
    /\ UNCHANGED <<favVars, apiVars, appVars>>

InitTimeout ==
    /\ called = [c \in Calls |-> FALSE]
    /\ timeoutMessage = [c \in Calls |-> ""]
    /\ timedOut = [c \in Calls |-> FALSE]
    /\ timer = [c \in Calls |-> "none"]
    /\ fnPromise = [c \in Calls |-> [tag |-> "none", val |-> ""]]
    /\ result = [c \in Calls |-> Unsettled]
    /\ chain = [c \in Calls |-> "pending"]
    /\ microtasks = <<>>
    /\ forwarded = [c \in Calls |-> <<>>]
    /\ firstFired = [c \in Calls |-> "none"]

NextTimeout ==
    \/ \E c \in Calls, msg \in Messages, e \in Errors :
          \/ timeout(c, msg, FALSE, e)
          \/ timeout(c, msg, TRUE, e)
    \/ \E c \in Calls : TimerFires(c)
    \/ \E c \in Calls, v \in Values : FnFulfils(c, v)
    \/ \E c \in Calls, e \in Errors : FnRejects(c, e)
    \/ RunThenReaction
    \/ RunCatchReaction

(***************************************************************************)
(* hooks/useFavourites.ts                                                  *)
(*                                                                         *)
(* A favourite is [idMeal, strMeal, userComment]; a meal as the API        *)
(* returns it has no userComment property (NoComment).  The hook state     *)
(* `favourites` is what setFavourites' updaters have produced so far;      *)
(* `shown` is the value the closures of the current render read.           *)
(***************************************************************************)
Ids == {"m1", "m2"}
Comments == {"c1", "c2"}
NoComment == "undefined"
NameOf(id) == IF id = "m1" THEN "Soup" ELSE "Pie"
Meal(id) == [idMeal |-> id, strMeal |-> NameOf(id), userComment |-> NoComment]

\* A serialization that leaves the comment out.
StringifyEntry_NoComment(fav) ==
    {<<"idMeal", fav.idMeal>>, <<"strMeal", fav.strMeal>>}

\* JSON.stringify(favourites): one object per entry, a property whose value
\* is undefined is left out.
StringifyEntry(fav) ==
    {<<"idMeal", fav.idMeal>>, <<"strMeal", fav.strMeal>>}
        \cup (IF fav.userComment = NoComment THEN {}
              ELSE {<<"userComment", fav.userComment>>})

\* The texts the slot can hold, by what JSON.parse makes of them: the text
\* of an array of objects, a text that parses to something else ("{}",
\* "null"), a text JSON.parse throws on ("[{"), and the empty string.
ArrayText(items) == [syntax |-> "array", items |-> items]
OtherText == [syntax |-> "other", items |-> <<>>]
BrokenText == [syntax |-> "invalid", items |-> <<>>]
EmptyText == [syntax |-> "empty", items |-> <<>>]

JSONstringify(list) ==
    ArrayText([i \in 1 .. Len(list) |-> StringifyEntry(list[i])])

\* JSON.parse(stored): a property the text lacks reads as undefined.
Property(obj, key) ==
    IF \E kv \in obj : kv[1] = key
      THEN (CHOOSE kv \in obj : kv[1] = key)[2]
      ELSE NoComment
ParseEntry(obj) ==
    [idMeal |-> Property(obj, "idMeal"), strMeal |-> Property(obj, "strMeal"),
     userComment |-> Property(obj, "userComment")]
JSONparse(text) == [i \in 1 .. Len(text.items) |-> ParseEntry(text.items[i])]

NoItem == [present |-> FALSE, text |-> EmptyText]
Item(text) == [present |-> TRUE, text |-> text]

\* The value of the hook state: an array, or whatever else JSON.parse
\* returned (the initializer does not look at what it parsed).
ListState(list) == [isArray |-> TRUE, list |-> list]
NotAnArray == [isArray |-> FALSE, list |-> <<>>]

\* The useState initializer (lines 36-47): `stored ? JSON.parse(stored) : []`
\* inside try/catch.  getItem can throw (readOk = FALSE) and JSON.parse
\* throws on a broken text: both are caught and give [].  null and "" are
\* falsy and give [].
ReadStored(slot, readOk) ==
    IF ~readOk \/ ~slot.present \/ slot.text.syntax \in {"empty", "invalid"}
      THEN ListState(<<>>)
      ELSE IF slot.text.syntax = "array"
             THEN ListState(JSONparse(slot.text))
             ELSE NotAnArray

\* An effect that stops writing once a write has failed.
WriteStored_GivesUp(value, writeOk) ==
    /\ storage' = IF ~writeOk \/ writeFailed THEN storage
                  ELSE IF value.isArray THEN Item(JSONstringify(value.list))
                  ELSE Item(OtherText)
    /\ writeFailed' = (~writeOk \/ writeFailed)

\* The useEffect body (lines 51-59): setItem may throw (quota), which is
\* caught and logged; the slot then keeps its content.
WriteStored(value, writeOk) ==
    /\ storage' = IF ~writeOk THEN storage
                  ELSE IF value.isArray THEN Item(JSONstringify(value.list))
                  ELSE Item(OtherText)
    /\ writeFailed' = ~writeOk

\* isFavourite (lines 116-119): reads the `favourites` of the current render.
isFavourite(mealId) == \E i \in 1 .. Len(shown) : shown[i].idMeal = mealId

\* The updater of addFavourite (line 75).
AddUpdater(prev, meal) == Append(prev, meal)

\* A removal that deletes one matching entry only.
RemoveUpdater_FirstMatch(prev, mealId) ==
    IF \E i \in 1 .. Len(prev) : prev[i].idMeal = mealId
      THEN LET k == CHOOSE i \in 1 .. Len(prev) :
                        /\ prev[i].idMeal = mealId
                        /\ \A j \in 1 .. i - 1 : prev[j].idMeal /= mealId
           IN  SubSeq(prev, 1, k - 1) \o SubSeq(prev, k + 1, Len(prev))
      ELSE prev

\* The updater of removeFavourite (line 89).
RemoveUpdater(prev, mealId) ==
    SelectSeq(prev, LAMBDA fav : fav.idMeal /= mealId)

\* A comment update that keeps a comment the entry already has.
CommentUpdater_KeepsFirst(prev, mealId, comment) ==
    [i \in 1 .. Len(prev) |->
        IF prev[i].idMeal = mealId /\ prev[i].userComment = NoComment
          THEN [prev[i] EXCEPT !.userComment = comment]
          ELSE prev[i]]

\* The updater of addCommentToFavourite (lines 104-106).
CommentUpdater(prev, mealId, comment) ==
    [i \in 1 .. Len(prev) |->
        IF prev[i].idMeal = mealId
          THEN [prev[i] EXCEPT !.userComment = comment]
          ELSE prev[i]]

\* The observer of the calls made for each identifier since the page was
\* loaded: "added" after addFavourite (comment updates keep it), "removed"
\* after a removeFavourite that followed, "readded" after an addFavourite
\* that followed the removal.  It is "off" when no claim needs it.
Followed(mealId, name) ==
    [trace EXCEPT ![mealId] =
        IF @ = "off" THEN "off"
        ELSE IF name = "add"
          THEN (IF @ \in {"removed", "readded"} THEN "readded" ELSE "added")
        ELSE IF name = "remove"
          THEN (IF @ = "none" THEN "none" ELSE "removed")
        ELSE (IF @ = "readded" THEN "added" ELSE @)]
Unfollowed == [id \in Ids |-> IF trace[id] = "off" THEN "off" ELSE "none"]

\* `favourites.some`, `prev.filter` and `prev.map` are not functions when the
\* state is not an array: the call throws a TypeError to its caller before
\* any state is set.
Throws ==
    /\ thrown' = TRUE
    /\ UNCHANGED trace
    /\ UNCHANGED <<started, favourites, isArray, shown, renderPending,
                   storage, writeFailed>>

\* First run of the hook in App: the state is read from the slot, the
\* component renders and the effect runs for the first time.
FirstRun(readOk, writeOk) ==
    /\ started' = TRUE
    /\ favourites' = ReadStored(storage, readOk).list
    /\ isArray' = ReadStored(storage, readOk).isArray
    /\ shown' = ReadStored(storage, readOk).list
    /\ WriteStored(ReadStored(storage, readOk), writeOk)
    /\ renderPending' = FALSE
    /\ thrown' = FALSE
    /\ trace' = Unfollowed

Start(readOk, writeOk) ==
    /\ ~started
    /\ FirstRun(readOk, writeOk)
    /\ UNCHANGED <<timeoutVars, apiVars, appVars>>

\* The page is loaded again: what was in memory is gone, the slot is kept,
\* and the hook runs for the first time in the new page.
Reload(readOk, writeOk) ==
    /\ started
    /\ FirstRun(readOk, writeOk)
    /\ UNCHANGED <<timeoutVars, apiVars, appVars>>

\* addFavourite(meal) (lines 70-77).
addFavourite(meal) ==
    /\ started
    /\ Len(favourites) < MaxFavs
    /\ IF ~isArray THEN Throws
       ELSE /\ IF ~isFavourite(meal.idMeal)
                 THEN /\ favourites' = AddUpdater(favourites, meal)
                      /\ renderPending' = TRUE
                 ELSE UNCHANGED <<favourites, renderPending>>
            /\ trace' = Followed(meal.idMeal, "add")
            /\ UNCHANGED <<started, isArray, shown, storage, writeFailed,
                           thrown>>
    /\ UNCHANGED <<timeoutVars, apiVars, appVars>>

\* removeFavourite(mealId) (lines 86-90): filter always returns a new array,
\* so a re-render is always scheduled.
removeFavourite(mealId) ==
    /\ started
    /\ IF ~isArray THEN Throws
       ELSE /\ favourites' = RemoveUpdater(favourites, mealId)
            /\ renderPending' = TRUE
            /\ trace' = Followed(mealId, "remove")
            /\ UNCHANGED <<started, isArray, shown, storage, writeFailed,
                           thrown>>
    /\ UNCHANGED <<timeoutVars, apiVars, appVars>>

\* addCommentToFavourite(mealId, comment) (lines 102-108).
addCommentToFavourite(mealId, comment) ==
    /\ started
    /\ IF ~isArray THEN Throws
       ELSE /\ favourites' = CommentUpdater(favourites, mealId, comment)
            /\ renderPending' = TRUE
            /\ trace' = Followed(mealId, "comment")
            /\ UNCHANGED <<started, isArray, shown, storage, writeFailed,
                           thrown>>
    /\ UNCHANGED <<timeoutVars, apiVars, appVars>>

\* The scheduled re-render: the closures now read the new list, and since
\* the list is a new array the effect runs and writes it.
Render(writeOk) ==
    /\ started
    /\ renderPending
    /\ renderPending' = FALSE
    /\ shown' = favourites
    /\ WriteStored(ListState(favourites), writeOk)
    /\ UNCHANGED <<started, favourites, isArray, thrown, trace>>
    /\ UNCHANGED <<timeoutVars, apiVars, appVars>>

\* What the slot holds when the application starts after earlier sessions
\* of this program: nothing, or the snapshot of a list.
StoredLists ==
    {<<>>} \cup {<<[Meal(id) EXCEPT !.userComment = c]>> :
                    id \in Ids, c \in Comments \cup {NoComment}}
InitialSlots == {NoItem} \cup {Item(JSONstringify(l)) : l \in StoredLists}

\* What something else can have left under the key: the empty string, a
\* text that does not parse, a text that parses to something else.
ForeignSlots == {Item(EmptyText), Item(BrokenText), Item(OtherText)}

NextFav ==
    \/ \E readOk, writeOk \in BOOLEAN : Start(readOk, writeOk)
    \/ \E readOk, writeOk \in BOOLEAN : Reload(readOk, writeOk)
    \/ \E id \in Ids : addFavourite(Meal(id))
    \/ \E id \in Ids : removeFavourite(id)
    \/ \E id \in Ids, c \in Comments : addCommentToFavourite(id, c)
    \/ \E writeOk \in BOOLEAN : Render(writeOk)

(***************************************************************************)
(* utils/api.ts: the API client                                            *)
(*                                                                         *)
(* A record is [idMeal, full]: full records carry every field, the         *)
(* filter endpoints return abbreviated ones.  A backend response is a      *)
(* non-success status, or a success whose `meals` is null or a list.       *)
(***************************************************************************)
FullRec(id) == [idMeal |-> id, full |-> TRUE]
LightRec(id) == [idMeal |-> id, full |-> FALSE]

FailResp == [ok |-> FALSE, isNull |-> FALSE, meals |-> <<>>]
NullResp == [ok |-> TRUE, isNull |-> TRUE, meals |-> <<>>]
ListResp(l) == [ok |-> TRUE, isNull |-> FALSE, meals |-> l]

\* The promise of an async function: pending, fulfilled with a list of
\* records, or rejected with an error.
Pending == [tag |-> "pending", list |-> <<>>, error |-> <<>>]
Ok(l) == [tag |-> "fulfilled", list |-> l, error |-> <<>>]
Err(e) == [tag |-> "rejected", list |-> <<>>, error |-> e]

TransportError == <<"API request failed">>
NotFoundError(id) == <<"Recipe not found", id>>

\* A handleResponse without the null check of lines 28-30: the null marker
\* reaches the caller, whose use of it as a list fails.
handleResponse_NullUnchecked(response) ==
    IF ~response.ok THEN Err(TransportError)
    ELSE IF response.isNull THEN Err(<<"TypeError">>)
    ELSE Ok(response.meals)

\* handleResponse (lines 18-33).
handleResponse(response) ==
    IF ~response.ok THEN Err(TransportError)
    ELSE IF response.isNull THEN Ok(<<>>)
    ELSE Ok(response.meals)

\* fetchRecipeById, from the response on (lines 85-93); the single record is
\* held as a one-element list.
RecipeOf_Last(id, response) ==
    LET results == handleResponse(response)
    IN  IF results.tag = "rejected" THEN results
        ELSE IF Len(results.list) = 0 THEN Err(NotFoundError(id))
        ELSE Ok(<<results.list[Len(results.list)]>>)
RecipeOf(id, response) ==
    LET results == handleResponse(response)
    IN  IF results.tag = "rejected" THEN results
        ELSE IF Len(results.list) = 0 THEN Err(NotFoundError(id))
        ELSE Ok(<<results.list[1]>>)

\* The count of the all-empty fallback of searchRecipes (line 146).
FallbackCount == 9

\* The URL searchRecipes builds (lines 130-147); "random" stands for the
\* fallback.
FilterOf_AreaFirst(params) ==
    IF params.name /= "" THEN "search.php?s"
    ELSE IF params.area /= "" THEN "filter.php?a"
    ELSE IF params.ingredient /= "" THEN "filter.php?i"
    ELSE "random"
FilterOf(params) ==
    IF params.name /= "" THEN "search.php?s"
    ELSE IF params.ingredient /= "" THEN "filter.php?i"
    ELSE IF params.area /= "" THEN "filter.php?a"
    ELSE "random"

ArgOf(params) ==
    IF params.name /= "" THEN params.name
    ELSE IF params.ingredient /= "" THEN params.ingredient
    ELSE params.area

\* `if (params.ingredient || params.area)` (line 155).
NeedsLookups(params) == params.ingredient /= "" \/ params.area /= ""

Request(endpoint, arg) ==
    [endpoint |-> endpoint, arg |-> arg, done |-> FALSE, resp |-> FailResp]

\* What the promise made for request i holds: fetch(..).then(handleResponse)
\* for the list endpoints, fetchRecipeById(id) for a lookup.
PromiseOf(reqs, i) ==
    IF ~reqs[i].done THEN Pending
    ELSE IF reqs[i].endpoint = "lookup.php?i" THEN RecipeOf(reqs[i].arg, reqs[i].resp)
    ELSE handleResponse(reqs[i].resp)

RECURSIVE Flat(_, _, _)
\* results.flat() over the promises of requests from..Len(reqs), in order.
Flat(reqs, from, acc) ==
    IF from > Len(reqs) THEN acc
    ELSE Flat(reqs, from + 1, acc \o PromiseOf(reqs, from).list)

\* Promise.all over the promises of requests from..Len(reqs), after the
\* promise of request i has settled: it rejects with the first rejection and
\* fulfils once every promise has fulfilled.
PromiseAll_Partial(prev, reqs, from, i) ==
    IF prev.tag /= "pending" THEN prev
    ELSE IF \A j \in from .. Len(reqs) : PromiseOf(reqs, j).tag /= "pending"
        THEN Ok(Flat(reqs, from, <<>>))
    ELSE prev
PromiseAll(prev, reqs, from, i) ==
    IF prev.tag /= "pending" THEN prev
    ELSE IF PromiseOf(reqs, i).tag = "rejected" THEN PromiseOf(reqs, i)
    ELSE IF \A j \in from .. Len(reqs) : PromiseOf(reqs, j).tag = "fulfilled"
        THEN Ok(Flat(reqs, from, <<>>))
    ELSE prev

NoParams == [name |-> "", ingredient |-> "", area |-> ""]
NoCall == [op |-> "none", phase |-> "none", count |-> 0, id |-> "", params |-> NoParams]

\* The body of fetchRandomRecipes (lines 51-69) up to its await.
IssueRandom(count) ==
    /\ requests' = requests \o [i \in 1 .. count |-> Request("random.php", "")]
    /\ outcome' = IF count = 0 THEN Ok(<<>>) ELSE Pending

fetchRandomRecipes(count) ==
    /\ call.op = "none"
    /\ call' = [NoCall EXCEPT !.op = "random", !.phase = "random", !.count = count]
    /\ IssueRandom(count)
    /\ UNCHANGED <<timeoutVars, favVars, appVars>>

fetchRecipeById(id) ==
    /\ call.op = "none"
    /\ call' = [NoCall EXCEPT !.op = "byId", !.phase = "byId", !.id = id]
    /\ requests' = <<Request("lookup.php?i", id)>>
    /\ outcome' = Pending
    /\ UNCHANGED <<timeoutVars, favVars, appVars>>

\* searchRecipes(params) up to its first await (lines 125-150).
searchRecipes(params) ==
    /\ call.op = "none"
    /\ IF FilterOf(params) = "random"
         THEN /\ call' = [NoCall EXCEPT !.op = "search", !.phase = "random",
                                        !.count = FallbackCount, !.params = params]
              /\ IssueRandom(FallbackCount)
         ELSE /\ call' = [NoCall EXCEPT !.op = "search", !.phase = "first",
                                        !.params = params]
              /\ requests' = <<Request(FilterOf(params), ArgOf(params))>>
              /\ outcome' = Pending
    /\ UNCHANGED <<timeoutVars, favVars, appVars>>

Answered(i, resp) == [requests EXCEPT ![i].done = TRUE, ![i].resp = resp]

\* A random.php response arrives: handleResponse, then Promise.all and
\* flat() of fetchRandomRecipes (lines 58-68).
RandomResponds(i, resp) ==
    /\ call.phase = "random"
    /\ i \in 1 .. Len(requests) /\ ~requests[i].done
    /\ requests' = Answered(i, resp)
    /\ outcome' = PromiseAll(outcome, Answered(i, resp), 1, i)
    /\ UNCHANGED <<call, timeoutVars, favVars, appVars>>

\* The response of a top-level fetchRecipeById arrives (lines 83-93).
ByIdResponds(resp) ==
    /\ call.phase = "byId"
    /\ ~requests[1].done
    /\ requests' = Answered(1, resp)
    /\ outcome' = RecipeOf(call.id, resp)
    /\ UNCHANGED <<call, timeoutVars, favVars, appVars>>

\* The response of searchRecipes' first request arrives (lines 150-164): on
\* a list, either one fetchRecipeById per element is started and awaited
\* with Promise.all, or the list is returned.
FirstResponds(resp) ==
    /\ call.phase = "first"
    /\ LET results == handleResponse(resp)
           first == Answered(1, resp)
       IN  IF results.tag = "rejected"
             THEN /\ requests' = first
                  /\ outcome' = results
                  /\ call' = [call EXCEPT !.phase = "done"]
           ELSE IF NeedsLookups(call.params)
             THEN /\ requests' = first \o
                        [k \in 1 .. Len(results.list) |->
                            Request("lookup.php?i", results.list[k].idMeal)]
                  /\ outcome' = IF Len(results.list) = 0 THEN Ok(<<>>) ELSE Pending
                  /\ call' = [call EXCEPT !.phase = "lookups"]
           ELSE /\ requests' = first
                /\ outcome' = results
                /\ call' = [call EXCEPT !.phase = "done"]
    /\ UNCHANGED <<timeoutVars, favVars, appVars>>

\* The response of one of searchRecipes' lookups arrives (lines 156-159).
LookupResponds(i, resp) ==
    /\ call.phase = "lookups"
    /\ i \in 2 .. Len(requests) /\ ~requests[i].done
    /\ requests' = Answered(i, resp)
    /\ outcome' = PromiseAll(outcome, Answered(i, resp), 2, i)
    /\ UNCHANGED <<call, timeoutVars, favVars, appVars>>

\* The inputs of the API model.
Params == [name : {"", "chicken"}, ingredient : {"", "beef"}, area : {"", "Italy"}]
RECURSIVE ListsOf(_, _)
ListsOf(S, n) ==
    IF n = 0 THEN {<<>>}
    ELSE LET shorter == ListsOf(S, n - 1)
         IN  shorter \cup {Append(l, x) : l \in shorter, x \in S}
RandomResponses == {FailResp, NullResp, ListResp(<<FullRec("m1")>>)}
LookupResponses ==
    {FailResp, NullResp, ListResp(<<>>)}
        \cup {ListResp(<<FullRec(a)>>) : a \in Ids}
        \cup {ListResp(<<FullRec(a), FullRec(b)>>) : a, b \in Ids}
FilterResponses(full) ==
    {FailResp, NullResp}
        \cup {ListResp(l) : l \in ListsOf({[idMeal |-> id, full |-> full] : id \in Ids},
                                          MaxResults)}

NextApi ==
    \/ \E count \in 0 .. MaxCount : fetchRandomRecipes(count)
    \/ \E id \in Ids : fetchRecipeById(id)
    \/ \E params \in Params : searchRecipes(params)
    \/ \E i \in 1 .. Len(requests), resp \in RandomResponses : RandomResponds(i, resp)
    \/ \E resp \in LookupResponses : ByIdResponds(resp)
    \/ \E resp \in FilterResponses(call.params.name /= "") : FirstResponds(resp)
    \/ \E i \in 1 .. Len(requests), resp \in LookupResponses : LookupResponds(i, resp)

(***************************************************************************)
(* App.tsx: navigation                                                     *)
(*                                                                         *)
(* A route string is the sequence of its parts: "" is <<>>, "#/" is        *)
(* <<"#">>, "#/search" is <<"#", "search">>, "#/recipe/m1" is              *)
(* <<"#", "recipe", "m1">>.  navigate and goBack are called once per      *)
(* event (Header.tsx 45-63, RecipeCard, Favourites.tsx 122-127,            *)
(* RecipeDetail.tsx 93-95, NotFoundPage) and App is re-rendered before     *)
(* the next event is handled, so a call reads the `currentPath` and        *)
(* `prevPath` that the call before it set.                                 *)
(***************************************************************************)
Root == <<"#">>
SearchRoute == <<"#", "search">>
FavouritesRoute == <<"#", "favourites">>
DetailRoute(id) == <<"#", "recipe", id>>

\* path.startsWith('#/recipe/') (line 94).
IsDetail(path) == Len(path) >= 3 /\ path[1] = "#" /\ path[2] = "recipe"

\* The values of `prevPath`: null or a route.
NoPrev == [stored |-> FALSE, path |-> <<>>]
Stored(path) == [stored |-> TRUE, path |-> path]

\* `if (prevPath)` (line 115): null and the empty string are falsy.
Truthy(prev) == prev.stored /\ prev.path /= <<>>

\* useState(window.location.hash || '#/') (line 32).
InitialPath(h) == IF h = <<>> THEN Root ELSE h

\* The observer of the last MaxHistory calls; it records nothing when it
\* starts as NotRecorded.
NotRecorded == <<[op |-> "off", path |-> <<>>]>>
Remembered(callMade) ==
    LET all == Append(navCalls, callMade)
    IN  IF navCalls = NotRecorded THEN navCalls
        ELSE IF Len(all) > MaxHistory THEN Tail(all) ELSE all
Navigated(path) == [op |-> "navigate", path |-> path]
WentBack == [op |-> "goBack", path |-> <<>>]

\* A condition that saves the route before every detail navigation.
SavesPrevious_EveryDetail(path, current) == IsDetail(path)

\* The condition of line 94 without the negation of its second test.
SavesPrevious_FromDetail(path, current) == IsDetail(path) /\ IsDetail(current)

\* The condition of line 94.
SavesPrevious(path, current) == IsDetail(path) /\ ~IsDetail(current)

\* The search session of a freshly started application: `meals` is named by
\* the value it was fetched as.
NoError == "null"
EmptyMeals == "[]"

\* useState<ISearchState>({...}) (lines 53-61).
InitialSession ==
    [name |-> "", ingredient |-> "", area |-> "", meals |-> EmptyMeals,
     loading |-> FALSE, error |-> NoError, isInitial |-> TRUE]

\* A navigate in an application that keeps the search session in the page
\* it leaves: the session is back to its initial value after the call.
navigate_DropsSession(path) ==
    /\ prevPath' = IF SavesPrevious(path, currentPath)
                     THEN Stored(currentPath) ELSE prevPath
    /\ hash' = path
    /\ currentPath' = path
    /\ navCalls' = Remembered(Navigated(path))
    /\ searchState' = InitialSession
    /\ UNCHANGED <<shownSession, sessionPending>>
    /\ UNCHANGED <<timeoutVars, favVars, apiVars, searchVars, pageVars>>

\* navigate(path) (lines 91-103).
navigate(path) ==
    /\ prevPath' = IF SavesPrevious(path, currentPath)
                     THEN Stored(currentPath) ELSE prevPath
    /\ hash' = path
    /\ currentPath' = path
    /\ navCalls' = Remembered(Navigated(path))
    /\ UNCHANGED <<timeoutVars, favVars, apiVars, sessionVars, searchVars, pageVars>>

\* A goBack that keeps the stored route.
Consumed_Never(prev) == prev

\* setPrevPath(null) (line 119).
Consumed(prev) == NoPrev

\* goBack() (lines 114-125).
goBack ==
    /\ IF Truthy(prevPath)
         THEN /\ hash' = prevPath.path
              /\ currentPath' = prevPath.path
              /\ prevPath' = Consumed(prevPath)
         ELSE /\ hash' = Root
              /\ currentPath' = Root
              /\ UNCHANGED prevPath
    /\ navCalls' = Remembered(WentBack)
    /\ UNCHANGED <<timeoutVars, favVars, apiVars, sessionVars, searchVars, pageVars>>

\* The routes the callers navigate to, and what the address bar can hold
\* when the application is loaded.
Routes == {Root, SearchRoute, FavouritesRoute} \cup {DetailRoute(id) : id \in Ids}
InitialHashes == {<<>>, Root, SearchRoute, DetailRoute("m1"), <<"#", "nowhere">>}

NextNav ==
    \/ \E path \in Routes : navigate(path)
    \/ goBack

(***************************************************************************)
(* App.tsx: the search session                                             *)
(*                                                                         *)
(* The session is a record of seven fields; a partial update is a record   *)
(* of some of them.  `meals` is named by the value it was fetched as.      *)
(***************************************************************************)
\* ({ ...prev, ...s }) (line 74).
Merge(prev, s) ==
    [f \in DOMAIN prev |-> IF f \in DOMAIN s THEN s[f] ELSE prev[f]]

\* An updater that starts from the session of the current render.
UpdaterBase_Rendered == shownSession

\* `prev` of the updater given to setSearchStateInternal (line 74): the
\* latest state, updates made since the last render included.
UpdaterBase == searchState

\* The body of setSearchState (lines 73-75): the spread makes a new object,
\* so a re-render is scheduled.
ApplyUpdate(s) ==
    /\ searchState' = Merge(UpdaterBase, s)
    /\ sessionPending' = TRUE
    /\ UNCHANGED shownSession

\* setSearchState(s) called on its own.
setSearchState(s) ==
    /\ ApplyUpdate(s)
    /\ UNCHANGED <<timeoutVars, favVars, apiVars, navVars, searchVars, pageVars>>

\* The scheduled re-render of App.
SessionRender ==
    /\ sessionPending
    /\ shownSession' = searchState
    /\ sessionPending' = FALSE
    /\ UNCHANGED searchState
    /\ UNCHANGED <<timeoutVars, favVars, apiVars, navVars, searchVars, pageVars>>

\* The partial updates of Search.tsx: the loading-start (lines 63, 102), the
\* result (lines 74, 110), the error (lines 78-82, 113-117) and the field
\* edits (lines 133-135).

\* A loading-start that leaves the error as it was.
LoadingStart_KeepsError == [loading |-> TRUE, isInitial |-> FALSE]

LoadingStart == [loading |-> TRUE, isInitial |-> FALSE, error |-> NoError]

\* A result update that leaves the error as it was.
ResultUpdate_KeepsError(data) == [meals |-> data, loading |-> FALSE]

ResultUpdate(data) == [meals |-> data, error |-> NoError, loading |-> FALSE]

\* An error update that leaves the result list as it was.
ErrorUpdate_KeepsMeals(message) == [error |-> message, loading |-> FALSE]

ErrorUpdate(message) == [meals |-> EmptyMeals, error |-> message, loading |-> FALSE]

FieldEdits ==
    {[name |-> v] : v \in {"", "chicken"}}
        \cup {[ingredient |-> v] : v \in {"", "beef"}}
        \cup {[area |-> v] : v \in {"", "Italy"}}
PartialUpdates ==
    FieldEdits \cup {LoadingStart} \cup {ResultUpdate(v) : v \in Values}
        \cup {ErrorUpdate(e) : e \in Errors}

NextSession ==
    \/ \E s \in PartialUpdates : setSearchState(s)
    \/ SessionRender

(***************************************************************************)
(* pages/Search/Search.tsx: handleSearch and loadRandom                    *)
(*                                                                         *)
(* Submission c is the c-th call of timeout.  An error is named by its     *)
(* message; "" is an error without message.                                *)
(***************************************************************************)
RequestTooLong == "too long"        \* 'The request took too long.'
SearchErrors == {"e1", ""}

NoConsumer == [kind |-> "none", stage |-> "none", derived |-> Unsettled]

\* `err.message || 'Search failed'` (line 80) and
\* `err.message || 'Failed to load random'` (line 115).
Fallback(kind) == IF kind = "random" THEN "Failed to load random" ELSE "Search failed"
MessageOr(err, kind) == IF err = "" THEN Fallback(kind) ELSE err

\* `!params.name && !params.ingredient && !params.area` (line 57).
NoCriteria(params) == params.name = "" /\ params.ingredient = "" /\ params.area = ""

\* A .catch whose handler runs whatever the outcome.
CatchRuns_Always(settled) == TRUE

\* .catch(onRejected): the handler runs on a rejection only.
CatchRuns(settled) == settled.tag = "rejected"

Logged(c, kind, s) == [applied EXCEPT ![c] = Append(@, [kind |-> kind, loading |-> s.loading])]

\* handleSearch(params) (lines 55-84) and, for no criteria, loadRandom()
\* (lines 101-119): the loading-start update, then timeout(...) with the
\* .then/.catch chain attached to the promise it returns.  fn is an async
\* function: it returns a promise and never throws.  Submissions are
\* numbered in the order they are made.
handleSearch(c, params) ==
    /\ \A d \in Calls : d < c => called[d]
    /\ ApplyUpdate(LoadingStart)
    /\ Executor(c, RequestTooLong, FALSE, "")
    /\ consumer' = [consumer EXCEPT
                      ![c] = [kind |-> IF NoCriteria(params) THEN "random" ELSE "search",
                              stage |-> "attached", derived |-> Unsettled]]
    /\ applied' = Logged(c, "start", LoadingStart)
    /\ UNCHANGED <<favVars, apiVars, navVars, pageVars>>

\* The reaction of .then (lines 72-75, 109-111): on fulfilment the handler
\* applies the result and the derived promise fulfils with undefined; a
\* rejection passes through to the derived promise.
SearchThenReaction(c) ==
    /\ consumer[c].stage = "attached"
    /\ result[c].tag /= "unsettled"
    /\ IF result[c].tag = "fulfilled"
         THEN /\ ApplyUpdate(ResultUpdate(result[c].val))
              /\ applied' = Logged(c, "result", ResultUpdate(result[c].val))
              /\ consumer' = [consumer EXCEPT ![c].stage = "passing",
                                              ![c].derived = Fulfilled("undefined")]
         ELSE /\ UNCHANGED <<sessionVars, applied>>
              /\ consumer' = [consumer EXCEPT ![c].stage = "passing",
                                              ![c].derived = result[c]]
    /\ UNCHANGED <<timeoutVars, favVars, apiVars, navVars, pageVars>>

\* The reaction of .catch (lines 76-83, 112-118).
SearchCatchReaction(c) ==
    /\ consumer[c].stage = "passing"
    /\ LET update == ErrorUpdate(MessageOr(consumer[c].derived.val, consumer[c].kind))
       IN  IF CatchRuns(consumer[c].derived)
             THEN /\ ApplyUpdate(update)
                  /\ applied' = Logged(c, "error", update)
             ELSE UNCHANGED <<sessionVars, applied>>
    /\ consumer' = [consumer EXCEPT ![c].stage = "done"]
    /\ UNCHANGED <<timeoutVars, favVars, apiVars, navVars, pageVars>>

NextSearch ==
    \/ \E c \in Calls, params \in Params : handleSearch(c, params)
    \/ \E c \in Calls : TimerFires(c)
    \/ \E c \in Calls, v \in Values : FnFulfils(c, v)
    \/ \E c \in Calls, e \in SearchErrors : FnRejects(c, e)
    \/ RunThenReaction
    \/ RunCatchReaction
    \/ \E c \in Calls : SearchThenReaction(c)
    \/ \E c \in Calls : SearchCatchReaction(c)

\* An edit of the name field (line 133); the edits of the other two fields
\* (lines 134-135) have the same form.  An edit is an event: it is handled
\* when no reaction is queued.
NameEdits == {[name |-> v] : v \in {"", "chicken"}}
onNameChange(s) == TaskMayRun /\ setSearchState(s)

\* The search page with its form: submissions and their settlements,
\* interleaved with edits.
NextSearchPage ==
    \/ NextSearch
    \/ \E s \in NameEdits : onNameChange(s)

(***************************************************************************)
(* pages/Home: the initial load of the mount effect and reloadRandom.      *)
(*                                                                         *)
(* Load c is the c-th call of timeout; the effect makes the first.  The    *)
(* state updates one handler makes are applied together.                   *)
(***************************************************************************)
\* The three useState calls of Home.
InitialHome == [meals |-> EmptyMeals, loading |-> TRUE, error |-> NoError]

NoLoad == [kind |-> "none", stage |-> "none", derived |-> Unsettled]

\* `err.message || 'Failed to load recipes.'`.
HomeMessage(err) == IF err = "" THEN "Failed to load recipes." ELSE err

\* setLoading(true); setError(null); timeout(...) with the chain attached.
StartLoad(c, kind) ==
    /\ home' = [home EXCEPT !.loading = TRUE, !.error = NoError]
    /\ Executor(c, RequestTooLong, FALSE, "")
    /\ homeLoads' = [homeLoads EXCEPT
                       ![c] = [kind |-> kind, stage |-> "attached", derived |-> Unsettled]]
    /\ UNCHANGED <<detail, lookups>>
    /\ UNCHANGED <<favVars, apiVars, navVars, sessionVars, searchVars>>

\* The mount effect: `meals` is empty in a freshly mounted Home, so the
\* effect always loads.
HomeEffect ==
    /\ homeLoads[1].stage = "none"
    /\ home.meals = EmptyMeals
    /\ StartLoad(1, "initial")

\* reloadRandom(), the handler of the Refresh button.
reloadRandom(c) ==
    /\ homeLoads[1].stage /= "none"
    /\ \A d \in Calls : d < c => called[d]
    /\ StartLoad(c, "reload")

\* The .then handler: the initial load sets the list and clears the error,
\* a reload sets the list only.  A rejection passes through.
HomeThen(c) ==
    /\ homeLoads[c].stage = "attached"
    /\ result[c].tag /= "unsettled"
    /\ IF result[c].tag = "fulfilled"
         THEN /\ home' = IF homeLoads[c].kind = "initial"
                           THEN [home EXCEPT !.meals = result[c].val, !.error = NoError]
                           ELSE [home EXCEPT !.meals = result[c].val]
              /\ homeLoads' = [homeLoads EXCEPT ![c].stage = "passing",
                                                ![c].derived = Fulfilled("undefined")]
         ELSE /\ UNCHANGED home
              /\ homeLoads' = [homeLoads EXCEPT ![c].stage = "passing",
                                                ![c].derived = result[c]]
    /\ UNCHANGED <<detail, lookups>>
    /\ UNCHANGED <<timeoutVars, favVars, apiVars, navVars, sessionVars, searchVars>>

\* The .catch handler: setError(message), setMeals([]).
HomeCatch(c) ==
    /\ homeLoads[c].stage = "passing"
    /\ home' = IF homeLoads[c].derived.tag = "rejected"
                 THEN [home EXCEPT !.error = HomeMessage(homeLoads[c].derived.val),
                                   !.meals = EmptyMeals]
                 ELSE home
    /\ homeLoads' = [homeLoads EXCEPT ![c].stage = "finishing"]
    /\ UNCHANGED <<detail, lookups>>
    /\ UNCHANGED <<timeoutVars, favVars, apiVars, navVars, sessionVars, searchVars>>

\* The .finally handler: setLoading(false).
HomeFinally(c) ==
    /\ homeLoads[c].stage = "finishing"
    /\ home' = [home EXCEPT !.loading = FALSE]
    /\ homeLoads' = [homeLoads EXCEPT ![c].stage = "done"]
    /\ UNCHANGED <<detail, lookups>>
    /\ UNCHANGED <<timeoutVars, favVars, apiVars, navVars, sessionVars, searchVars>>

NextHome ==
    \/ HomeEffect
    \/ \E c \in Calls : reloadRandom(c)
    \/ \E c \in Calls : TimerFires(c)
    \/ \E c \in Calls, v \in Values : FnFulfils(c, v)
    \/ \E c \in Calls, e \in SearchErrors : FnRejects(c, e)
    \/ RunThenReaction
    \/ RunCatchReaction
    \/ \E c \in Calls : HomeThen(c)
    \/ \E c \in Calls : HomeCatch(c)
    \/ \E c \in Calls : HomeFinally(c)

(***************************************************************************)
(* pages/RecipeDetail: the effect that fetches the recipe of `mealId`.     *)
(*                                                                         *)
(* The effect calls fetchRecipeById directly, not through timeout.  A      *)
(* record is held as a one-element list, null as the empty list; an        *)
(* error is named by what fetchRecipeById rejects with.  A component that  *)
(* is unmounted is gone: the chains it started still run, and their state  *)
(* updates reach no component.                                             *)
(***************************************************************************)
Unmounted ==
    [mounted |-> FALSE, mealId |-> "", meal |-> <<>>, loading |-> FALSE, error |-> <<>>]

\* The useState calls (lines 41-47) and setLoading(true) of the effect.
Mounted(id) ==
    [mounted |-> TRUE, mealId |-> id, meal |-> <<>>, loading |-> TRUE, error |-> <<>>]

NoLookup == [id |-> "", stage |-> "none", live |-> FALSE, settled |-> Pending]

\* App renders <RecipeDetail mealId={id} /> for a detail route: the
\* component mounts and its effect runs (lines 63-66).
DetailMount(k, id) ==
    /\ ~detail.mounted
    /\ lookups[k].stage = "none"
    /\ \A d \in Calls : d < k => lookups[d].stage /= "none"
    /\ detail' = Mounted(id)
    /\ lookups' = [lookups EXCEPT
                     ![k] = [id |-> id, stage |-> "pending", live |-> TRUE,
                             settled |-> Pending]]
    /\ UNCHANGED <<home, homeLoads>>
    /\ UNCHANGED <<timeoutVars, favVars, apiVars, navVars, sessionVars, searchVars>>

\* App renders another page.
DetailUnmount ==
    /\ detail.mounted
    /\ detail' = Unmounted
    /\ lookups' = [k \in Calls |-> [lookups[k] EXCEPT !.live = FALSE]]
    /\ UNCHANGED <<home, homeLoads>>
    /\ UNCHANGED <<timeoutVars, favVars, apiVars, navVars, sessionVars, searchVars>>

\* The response to the lookup arrives and fetchRecipeById settles.
LookupSettles(k, resp) ==
    /\ lookups[k].stage = "pending"
    /\ lookups' = [lookups EXCEPT ![k].stage = "then",
                                  ![k].settled = RecipeOf(lookups[k].id, resp)]
    /\ UNCHANGED <<home, homeLoads, detail>>
    /\ UNCHANGED <<timeoutVars, favVars, apiVars, navVars, sessionVars, searchVars>>

\* The .then handler (lines 67-72): setMeal(data), setError(null).
DetailThen(k) ==
    /\ lookups[k].stage = "then"
    /\ detail' = IF lookups[k].settled.tag = "fulfilled" /\ lookups[k].live
                   THEN [detail EXCEPT !.meal = lookups[k].settled.list, !.error = <<>>]
                   ELSE detail
    /\ lookups' = [lookups EXCEPT ![k].stage = "catch"]
    /\ UNCHANGED <<home, homeLoads>>
    /\ UNCHANGED <<timeoutVars, favVars, apiVars, navVars, sessionVars, searchVars>>

\* The .catch handler (lines 73-78): setError(err.message), setMeal(null).
DetailCatch(k) ==
    /\ lookups[k].stage = "catch"
    /\ detail' = IF lookups[k].settled.tag = "rejected" /\ lookups[k].live
                   THEN [detail EXCEPT !.error = lookups[k].settled.error, !.meal = <<>>]
                   ELSE detail
    /\ lookups' = [lookups EXCEPT ![k].stage = "finally"]
    /\ UNCHANGED <<home, homeLoads>>
    /\ UNCHANGED <<timeoutVars, favVars, apiVars, navVars, sessionVars, searchVars>>

\* The .finally handler (lines 79-82): setLoading(false).
DetailFinally(k) ==
    /\ lookups[k].stage = "finally"
    /\ detail' = IF lookups[k].live THEN [detail EXCEPT !.loading = FALSE] ELSE detail
    /\ lookups' = [lookups EXCEPT ![k].stage = "done"]
    /\ UNCHANGED <<home, homeLoads>>
    /\ UNCHANGED <<timeoutVars, favVars, apiVars, navVars, sessionVars, searchVars>>

NextDetail ==
    \/ \E k \in Calls, id \in Ids : DetailMount(k, id)
    \/ DetailUnmount
    \/ \E k \in Calls, resp \in LookupResponses : LookupSettles(k, resp)
    \/ \E k \in Calls : DetailThen(k)
    \/ \E k \in Calls : DetailCatch(k)
    \/ \E k \in Calls : DetailFinally(k)

(***************************************************************************)
(* App.tsx: the application as a whole.  The search page is the page of    *)
(* the route '#/search' (renderPage, lines 141-159): its form is edited    *)
(* and submitted there, while the result of a submission in flight is      *)
(* applied on whatever page the application shows by then.  Favourites     *)
(* are added from the cards and the detail page of any route.              *)
(***************************************************************************)
OnSearchPage == currentPath = SearchRoute
FormUpdates == NameEdits \cup {LoadingStart}
LateUpdates == {ResultUpdate("v1"), ErrorUpdate("e1")}

NextApp ==
    \/ \E path \in Routes : navigate(path)
    \/ goBack
    \/ \E s \in FormUpdates : OnSearchPage /\ setSearchState(s)
    \/ \E s \in LateUpdates : searchState.loading /\ setSearchState(s)
    \/ SessionRender
    \/ \E readOk, writeOk \in {TRUE} : Start(readOk, writeOk)
    \/ \E id \in Ids : addFavourite(Meal(id))
    \/ \E id \in Ids : removeFavourite(id)
    \/ \E writeOk \in {TRUE} : Render(writeOk)

(***************************************************************************)
(* Initial states and specifications.  The slot may hold an earlier        *)
(* session's snapshot only under SpecFav; the other specifications start   *)
(* with an empty slot and never touch it.                                  *)
(***************************************************************************)
NotStarted ==
    /\ started = FALSE
    /\ favourites = <<>>
    /\ isArray = TRUE
    /\ shown = <<>>
    /\ renderPending = FALSE
    /\ writeFailed = FALSE
    /\ thrown = FALSE

Untraced == trace = [id \in Ids |-> "off"]
Traced == trace = [id \in Ids |-> "none"]

InitFav == NotStarted /\ Untraced /\ storage \in InitialSlots

InitFavTraced == NotStarted /\ Traced /\ storage \in InitialSlots

InitFavForeign ==
    NotStarted /\ Untraced /\ storage \in InitialSlots \cup ForeignSlots

InitApi ==
    /\ call = NoCall
    /\ requests = <<>>
    /\ outcome = Pending

InitNav ==
    /\ hash \in InitialHashes
    /\ currentPath = InitialPath(hash)
    /\ prevPath = NoPrev
    /\ navCalls = <<>>

InitSession ==
    /\ searchState = InitialSession
    /\ shownSession = InitialSession
    /\ sessionPending = FALSE

InitSearch ==
    /\ consumer = [c \in Calls |-> NoConsumer]
    /\ applied = [c \in Calls |-> <<>>]

InitPages ==
    /\ home = InitialHome
    /\ homeLoads = [c \in Calls |-> NoLoad]
    /\ detail = Unmounted
    /\ lookups = [k \in Calls |-> NoLookup]

IdleApp == InitNav /\ hash = Root /\ InitSession /\ InitSearch /\ InitPages

IdleFav == NotStarted /\ Untraced /\ storage = NoItem

Init == InitTimeout /\ IdleFav /\ InitApi /\ IdleApp

SpecTimeout == Init /\ [][NextTimeout]_vars

InitAnySlot == InitTimeout /\ InitFav /\ InitApi /\ IdleApp

SpecFav ==
    /\ InitAnySlot
    /\ [][NextFav]_vars

InitTraced == InitTimeout /\ InitFavTraced /\ InitApi /\ IdleApp

SpecFavTraced ==
    /\ InitTraced
    /\ [][NextFav]_vars

InitForeignSlot == InitTimeout /\ InitFavForeign /\ InitApi /\ IdleApp

SpecFavForeign ==
    /\ InitForeignSlot
    /\ [][NextFav]_vars

SpecApi == Init /\ [][NextApi]_vars

InitAnyHash ==
    /\ InitTimeout /\ IdleFav /\ InitApi /\ InitNav /\ InitSession /\ InitSearch
    /\ InitPages

SpecNav == InitAnyHash /\ [][NextNav]_vars

InitApp ==
    /\ InitTimeout /\ IdleFav /\ InitApi /\ InitSession /\ InitSearch
    /\ InitPages
    /\ hash = Root
    /\ currentPath = InitialPath(hash)
    /\ prevPath = NoPrev
    /\ navCalls = NotRecorded

SpecApp == InitApp /\ [][NextApp]_vars

SpecSession == Init /\ [][NextSession]_vars

SpecSearch == Init /\ [][NextSearch]_vars

SpecSearchPage == Init /\ [][NextSearchPage]_vars

SpecHome == Init /\ [][NextHome]_vars

SpecDetail == Init /\ [][NextDetail]_vars

\* The event loop runs every queued reaction.  Nothing makes the backend
\* answer a lookup, and nothing makes the user leave the page.
FairDetail ==
    \A k \in Calls :
        /\ WF_vars(DetailThen(k))
        /\ WF_vars(DetailCatch(k))
        /\ WF_vars(DetailFinally(k))

SpecDetailLive == SpecDetail /\ FairDetail

\* The event loop runs every queued reaction, and a timer that stays
\* pending fires after timeoutMs.
FairSearch ==
    /\ WF_vars(RunThenReaction)
    /\ WF_vars(RunCatchReaction)
    /\ \A c \in Calls :
           /\ WF_vars(TimerFires(c))
           /\ WF_vars(SearchThenReaction(c))
           /\ WF_vars(SearchCatchReaction(c))

SpecSearchLive == SpecSearch /\ FairSearch

(***************************************************************************)
(* Claims about timeout, checked under SpecTimeout.                        *)
(***************************************************************************)
TimerRejection(c) == Rejected(timeoutMessage[c])

\* The outcome of the source that fired first for call c.
FirstOutcome(c) ==
    IF firstFired[c] = "timer" THEN TimerRejection(c)
    ELSE IF fnPromise[c].tag = "threw" THEN Rejected(fnPromise[c].val)
    ELSE fnPromise[c]

\* C1: the promise timeout() returns settles exactly once: it is unsettled
\* while neither source has fired; once fn's promise has fulfilled or rejected
\* first it holds exactly that value or error, once the timer has fired first
\* it holds a rejection carrying the given message; it is unsettled after a
\* source fired only while that source's reaction is still queued; and the
\* closure calls resolve/reject at most once.
C1_SettlesOnceWithFirstSource ==
    \A c \in Calls :
        /\ firstFired[c] = "none" => result[c] = Unsettled
        /\ firstFired[c] /= "none" =>
              \/ result[c] = FirstOutcome(c)
              \/ result[c] = Unsettled /\ JobsOf(c) /= {}
        /\ Len(forwarded[c]) <= 1

C1_Witness ==
    \E c, d \in Calls :
        /\ firstFired[c] = "op" /\ result[c].tag = "fulfilled" /\ JobsOf(c) = {}
        /\ firstFired[d] = "timer" /\ result[d] = TimerRejection(d)

\* C2: after the deadline fired first, a later fulfilment or rejection of the
\* operation is discarded: the result is the timeout rejection, the only
\* resolve/reject call ever made is the timer's, and the reaction chain does
\* not end rejected (no error is raised by handling the late outcome).
C2_LateOutcomeDiscarded ==
    \A c \in Calls :
        (firstFired[c] = "timer" /\ fnPromise[c].tag \in {"fulfilled", "rejected"}) =>
            /\ result[c] = TimerRejection(c)
            /\ forwarded[c] = <<[by |-> "timer", out |-> TimerRejection(c)]>>
            /\ chain[c] /= "rejected"

C2_Witness ==
    \E c, d \in Calls :
        /\ firstFired[c] = "timer" /\ fnPromise[c].tag = "fulfilled"
        /\ firstFired[d] = "timer" /\ fnPromise[d].tag = "rejected"
        /\ chain[c] = "fulfilled" /\ chain[d] = "fulfilled"

\* C3: whenever the operation finished first (its promise fulfilled or
\* rejected, or fn threw when invoked) and its reactions have run, the timer
\* of that call is neither pending nor fired.
C3_TimerCancelledWhenOpFirst ==
    \A c \in Calls :
        (firstFired[c] = "op" /\ JobsOf(c) = {}) => timer[c] \notin {"pending", "fired"}
(***************************************************************************)
(* Claims about the favourites store, checked under SpecFav.               *)
(***************************************************************************)
HasId(list, id) == \E i \in 1 .. Len(list) : list[i].idMeal = id

\* C4: in every reachable state no two entries of the favourites list have
\* the same recipe identifier, calls made before the re-render included.
C4_NoDuplicateFavourites ==
    \A i, j \in 1 .. Len(favourites) :
        i /= j => favourites[i].idMeal /= favourites[j].idMeal

\* C10: every addFavourite(meal) step leaves the list unchanged when an entry
\* with meal's identifier is in the list, and otherwise yields the old list
\* followed by meal.
C10_AddAppendsOrKeeps ==
    [][\A id \in Ids :
          addFavourite(Meal(id)) =>
              favourites' = IF HasId(favourites, id) THEN favourites
                            ELSE favourites \o <<Meal(id)>>]_vars

\* The positions of list whose entry is not mealId's, and the position an
\* entry takes among the members of a set of positions.
Kept(list, mealId) == {i \in 1 .. Len(list) : list[i].idMeal /= mealId}
RankIn(S, i) == Cardinality({j \in S : j <= i})

\* C11: every removeFavourite(id) step leaves no entry with identifier id in
\* the list and keeps every other entry, with its content, in the same
\* relative order; when id is absent the list is as it was; the call throws
\* nothing.
C11_RemoveDeletesOnlyId ==
    [][\A id \in Ids :
          removeFavourite(id) =>
              /\ ~HasId(favourites', id)
              /\ Len(favourites') = Cardinality(Kept(favourites, id))
              /\ \A i \in Kept(favourites, id) :
                     favourites'[RankIn(Kept(favourites, id), i)] = favourites[i]
              /\ ~HasId(favourites, id) => favourites' = favourites
              /\ ~thrown']_vars

\* A removal of the first of two entries has acted: the second, with its
\* comment, is what is left.
C11_Witness ==
    /\ renderPending
    /\ Len(shown) = 2
    /\ shown[1].idMeal /= shown[2].idMeal
    /\ shown[2].userComment /= NoComment
    /\ favourites = <<shown[2]>>

\* C12: every addCommentToFavourite(id, c) step sets the comment of the
\* entries with identifier id to c, whatever comment they had, and leaves
\* their other fields, every other entry, the length and the order as they
\* were; when id is absent the list is as it was.
C12_CommentReplacesOnlyComment ==
    [][\A id \in Ids, c \in Comments :
          addCommentToFavourite(id, c) =>
              /\ Len(favourites') = Len(favourites)
              /\ \A i \in 1 .. Len(favourites) :
                     IF favourites[i].idMeal = id
                       THEN favourites'[i] =
                              [idMeal |-> id, strMeal |-> favourites[i].strMeal,
                               userComment |-> c]
                       ELSE favourites'[i] = favourites[i]
              /\ ~HasId(favourites, id) => favourites' = favourites
              /\ ~thrown']_vars

\* A second comment update has replaced the first comment of one of two
\* entries.
C12_Witness ==
    /\ renderPending
    /\ Len(shown) = 2 /\ Len(favourites) = 2
    /\ shown[1].idMeal /= shown[2].idMeal
    /\ shown[2].userComment = "c1" /\ favourites[2].userComment = "c2"
    /\ favourites[1] = shown[1]

\* C13: once addFavourite, any comment updates, removeFavourite and
\* addFavourite again have been called for an identifier, in this order,
\* and the list has been re-rendered, isFavourite returns true for it and
\* its entry has no comment.
C13_ReAddedIsMemberWithoutComment ==
    \A id \in Ids :
        (started /\ ~renderPending /\ trace[id] = "readded") =>
            /\ isFavourite(id)
            /\ \A i \in 1 .. Len(favourites) :
                   favourites[i].idMeal = id =>
                       favourites[i].userComment = NoComment

\* C14: once the write of the last mutation has run and succeeded, the slot
\* holds the serialization of the list in memory, and what a restart reads
\* from the slot is that list: same entries, same order, same comments.
C14_SlotRoundTrip ==
    (started /\ isArray /\ ~renderPending /\ ~writeFailed) =>
        /\ storage = Item(JSONstringify(favourites))
        /\ ReadStored(storage, TRUE) = ListState(favourites)

\* Two entries, one of them with a replaced comment, have been written.
C14_Witness ==
    /\ started /\ ~renderPending /\ ~writeFailed
    /\ Len(favourites) = 2
    /\ favourites[1].idMeal /= favourites[2].idMeal
    /\ favourites[1].userComment = "c2"
    /\ storage = Item(JSONstringify(favourites))

\* The slot cannot be read as a favourites list: getItem throws, the slot is
\* absent, or its text does not parse to an array.
Unreadable(slot, readOk) ==
    ~readOk \/ ~slot.present \/ slot.text.syntax /= "array"

\* C15: every first run of the hook that finds the slot unreadable starts
\* with the empty list, and no call of the hook's functions ever throws to
\* its caller.
C15_UnreadableStartsEmpty ==
    [][/\ \A readOk, writeOk \in BOOLEAN :
             ((Start(readOk, writeOk) \/ Reload(readOk, writeOk))
                 /\ Unreadable(storage, readOk)) =>
                 (isArray' /\ favourites' = <<>> /\ shown' = <<>>)
       /\ ~thrown']_vars

\* C16: a render whose write fails still shows the list with the mutation
\* applied and throws nothing; while the last write has failed every
\* mutation acts on the list as it does otherwise; and every successful
\* write leaves the serialization of the whole current list in the slot.
C16_WriteFailureIsNotFatal ==
    [][/\ Render(FALSE) =>
             (favourites' = favourites /\ shown' = favourites /\ ~thrown')
       /\ writeFailed =>
             \A id \in Ids :
                 /\ (addFavourite(Meal(id)) /\ ~isFavourite(id)) =>
                        favourites' = Append(favourites, Meal(id))
                 /\ removeFavourite(id) => ~HasId(favourites', id)
                 /\ \A c \in Comments :
                        (addCommentToFavourite(id, c) /\ HasId(favourites, id)) =>
                            \E i \in 1 .. Len(favourites') :
                                /\ favourites'[i].idMeal = id
                                /\ favourites'[i].userComment = c
       /\ Render(TRUE) =>
             /\ storage' = Item(JSONstringify(favourites))
             /\ ReadStored(storage', TRUE) = ListState(favourites)]_vars

\* The write of a mutation has failed: the list of two entries is in
\* memory and shown, the slot still holds an older snapshot.
C16_Witness ==
    /\ started /\ ~renderPending /\ writeFailed /\ ~thrown
    /\ Len(favourites) = 2 /\ shown = favourites
    /\ storage /= Item(JSONstringify(favourites))

(***************************************************************************)
(* Claims about the API client, checked under SpecApi.                     *)
(***************************************************************************)
FilterEndpoints == {"search.php?s", "filter.php?i", "filter.php?a"}
RequestsTo(endpoints) == {i \in 1 .. Len(requests) : requests[i].endpoint \in endpoints}

\* The list a successful response carries, null read as the empty list.
ListIn(resp) == IF resp.isNull THEN <<>> ELSE resp.meals

\* C5: a fetchRandomRecipes(N) that succeeds returns exactly N records.
C5_RandomReturnsExactlyN ==
    (call.op = "random" /\ outcome.tag = "fulfilled") => Len(outcome.list) = call.count

\* C6: a searchRecipes with a non-empty name issues exactly one request, the
\* name filter, never a lookup, and its result is exactly the list that
\* request returned.
C6_NameSearchIsOneRequest ==
    (call.op = "search" /\ call.params.name /= "") =>
        /\ Len(requests) = 1
        /\ requests[1].endpoint = "search.php?s"
        /\ RequestsTo({"lookup.php?i"}) = {}
        /\ outcome.tag = "fulfilled" =>
              requests[1].done /\ outcome.list = ListIn(requests[1].resp)

\* C7: with at least one non-empty field, searchRecipes issues exactly one
\* filter request, its first: by name if name is non-empty, else by
\* ingredient if ingredient is non-empty, else by area.
C7_FilterByPriority ==
    (call.op = "search" /\ call.params /= NoParams) =>
        /\ Cardinality(RequestsTo(FilterEndpoints)) = 1
        /\ call.params.name /= "" =>
              requests[1].endpoint = "search.php?s" /\ requests[1].arg = call.params.name
        /\ (call.params.name = "" /\ call.params.ingredient /= "") =>
              /\ requests[1].endpoint = "filter.php?i"
              /\ requests[1].arg = call.params.ingredient
        /\ (call.params.name = "" /\ call.params.ingredient = "") =>
              requests[1].endpoint = "filter.php?a" /\ requests[1].arg = call.params.area

C7_Witness ==
    /\ call.op = "search"
    /\ call.params = [name |-> "", ingredient |-> "beef", area |-> "Italy"]
    /\ requests[1].endpoint = "filter.php?i"
    /\ requests[1].done

\* A lookup response that makes fetchRecipeById fail.
LookupFails(resp) == ~resp.ok \/ resp.isNull \/ resp.meals = <<>>

\* C8: a searchRecipes with an empty name and a non-empty ingredient or area
\* whose filter request returned k abbreviated records has issued exactly k
\* lookups, the i-th for the i-th record's identifier; it succeeds only after
\* all k have completed, with k full records; and once one lookup has failed
\* the search has failed.
C8_OneLookupPerAbbreviated ==
    (/\ call.op = "search" /\ call.params.name = "" /\ call.params /= NoParams
     /\ requests[1].done /\ requests[1].resp.ok) =>
        LET light == ListIn(requests[1].resp)
            k == Len(light)
        IN  /\ Len(requests) = 1 + k
            /\ \A i \in 1 .. k :
                  /\ requests[1 + i].endpoint = "lookup.php?i"
                  /\ requests[1 + i].arg = light[i].idMeal
            /\ outcome.tag = "fulfilled" =>
                  /\ \A i \in 1 .. k : requests[1 + i].done
                  /\ Len(outcome.list) = k
                  /\ \A i \in 1 .. k : outcome.list[i] = requests[1 + i].resp.meals[1]
                  /\ \A i \in 1 .. k : outcome.list[i].full
            /\ (\E i \in 1 .. k : requests[1 + i].done /\ LookupFails(requests[1 + i].resp))
                  => outcome.tag = "rejected"

C8_Witness ==
    /\ call.op = "search" /\ call.params.name = ""
    /\ requests[1].done /\ Len(ListIn(requests[1].resp)) = 2
    /\ outcome.tag = "fulfilled" /\ Len(outcome.list) = 2

\* C9: once its response has arrived, fetchRecipeById has failed with the
\* not-found error exactly when the status was a success and the list empty
\* or null, has failed with the transport error (a different one) on a
\* non-success status, and has otherwise returned the list's first element.
C9_NotFoundIffEmpty ==
    (call.op = "byId" /\ requests[1].done) =>
        LET resp == requests[1].resp
            empty == resp.ok /\ ListIn(resp) = <<>>
        IN  /\ outcome = Err(NotFoundError(call.id)) <=> empty
            /\ ~resp.ok => outcome = Err(TransportError)
            /\ (resp.ok /\ ~empty) => outcome = Ok(<<resp.meals[1]>>)
            /\ TransportError /= NotFoundError(call.id)

C9_Witness ==
    /\ call.op = "byId" /\ requests[1].done
    /\ requests[1].resp = NullResp
    /\ outcome = Err(NotFoundError(call.id))

(***************************************************************************)
(* Claims about navigation, checked under SpecNav.                         *)
(***************************************************************************)
\* C17: every navigate(path) step makes path the current route; it stores
\* the route it leaves as the previous route, in place of whatever was
\* stored, when path is a detail route and the route it leaves is not, and
\* leaves the previous route as it was in every other case.
C17_NavigateSavesOnEnteringDetail ==
    [][\A path \in Routes :
          navigate(path) =>
              /\ currentPath' = path
              /\ prevPath' = IF IsDetail(path) /\ ~IsDetail(currentPath)
                               THEN Stored(currentPath)
                               ELSE prevPath]_vars

\* A detail navigation from the search route has replaced the root route
\* that an earlier detail navigation had stored.
C17_Witness ==
    /\ navCalls = <<Navigated(DetailRoute("m1")), Navigated(SearchRoute),
                    Navigated(DetailRoute("m2"))>>
    /\ currentPath = DetailRoute("m2")
    /\ prevPath = Stored(SearchRoute)

\* The last n calls of navigate and goBack.
LastCalls(n) == SubSeq(navCalls, Len(navCalls) - n + 1, Len(navCalls))

\* C18: every goBack() step moves to the stored previous route and clears
\* it, or moves to the root route when none is stored.  Hence a goBack()
\* after navigate(root) and navigate(detail) ends on the root route, and so
\* does a goBack() that directly follows a goBack().
C18_GoBackConsumesPrevious ==
    [][goBack =>
          /\ currentPath' = IF prevPath.stored THEN prevPath.path ELSE Root
          /\ prevPath' = NoPrev
          /\ (/\ Len(navCalls) >= 2
              /\ LastCalls(2)[1] = Navigated(Root)
              /\ LastCalls(2)[2].op = "navigate"
              /\ IsDetail(LastCalls(2)[2].path)) => currentPath' = Root
          /\ (Len(navCalls) >= 1 /\ LastCalls(1)[1] = WentBack) =>
                 currentPath' = Root]_vars

\* The first of two goBack() calls after a detail navigation from the
\* search route has used the stored route, the second has fallen back to
\* the root route.
C18_Witness ==
    /\ navCalls = <<Navigated(DetailRoute("m1")), WentBack, WentBack>>
    /\ currentPath = Root
    /\ prevPath = NoPrev
    /\ hash = Root

(***************************************************************************)
(* Claims about the search session, checked under SpecSession and          *)
(* SpecSearch.                                                             *)
(***************************************************************************)
\* C19: every setSearchState(s) step gives each field named in s the value
\* s has for it and leaves every other field as it was, updates made since
\* the last render included.
C19_PartialUpdateMerges ==
    [][\A s \in PartialUpdates :
          setSearchState(s) =>
              \A f \in DOMAIN searchState :
                  searchState'[f] = IF f \in DOMAIN s THEN s[f] ELSE searchState[f]]_vars

\* Since the last render the name was edited and a loading-start and a
\* result were applied: the name is kept, the flags and the list are set.
C19_Witness ==
    /\ sessionPending
    /\ shownSession = InitialSession
    /\ searchState = [InitialSession EXCEPT !.name = "chicken", !.meals = "v1",
                                            !.isInitial = FALSE]

\* The session updates of one submission so far: the loading-start, with
\* loading true, followed by at most one further update, a result or an
\* error with loading false; a submission whose chain has run has made
\* exactly these two.
OrderedUpdates ==
    \A c \in Calls :
        /\ Len(applied[c]) <= 2
        /\ Len(applied[c]) >= 1 =>
               applied[c][1] = [kind |-> "start", loading |-> TRUE]
        /\ Len(applied[c]) = 2 =>
               /\ applied[c][2].kind \in {"result", "error"}
               /\ applied[c][2].loading = FALSE
        /\ consumer[c].stage = "done" => Len(applied[c]) = 2
        /\ consumer[c].stage = "none" => applied[c] = <<>>

\* C20: the session updates of every submission are, in this order, the
\* loading-start and then one result or error update that sets loading to
\* false: never a result or error before the loading-start, never a second
\* one, and every submission gets to its result or error update.
C20_SubmissionOrder ==
    /\ []OrderedUpdates
    /\ \A c \in Calls :
           (consumer[c].stage = "attached") ~>
               (consumer[c].stage = "done" /\ Len(applied[c]) = 2)

\* A criteria search and a random load have both finished, one with a
\* result and one with the error of a timeout that fired first.
C20_Witness ==
    \E c, d \in Calls :
        /\ consumer[c].stage = "done" /\ consumer[d].stage = "done"
        /\ consumer[c].kind = "search" /\ consumer[d].kind = "random"
        /\ applied[c][2] = [kind |-> "result", loading |-> FALSE]
        /\ applied[d][2] = [kind |-> "error", loading |-> FALSE]
        /\ timedOut[d]

\* C21: a submission whose promise rejects ends with the error's message in
\* the session's error field (the message given to timeout when the
\* deadline fired first), an empty result list and loading false, and the
\* rejection is handled: the chain goes on to its end.  A submission whose
\* promise fulfils ends with the returned list as the result list and a
\* null error.
C21_OutcomeCapturedInSession ==
    [][\A c \in Calls :
          /\ (SearchCatchReaction(c) /\ consumer[c].derived.tag = "rejected") =>
                 /\ consumer[c].derived.val /= "" =>
                        searchState'.error = consumer[c].derived.val
                 /\ firstFired[c] = "timer" => searchState'.error = RequestTooLong
                 /\ searchState'.error /= NoError
                 /\ searchState'.meals = EmptyMeals
                 /\ searchState'.loading = FALSE
                 /\ consumer'[c].stage = "done"
          /\ (SearchThenReaction(c) /\ result[c].tag = "fulfilled") =>
                 /\ searchState'.meals = result[c].val
                 /\ searchState'.error = NoError]_vars

\* A submission that followed a successful one has timed out: the session
\* holds the timeout message and the earlier results are gone.
C21_Witness ==
    /\ consumer[1].stage = "done" /\ consumer[2].stage = "done"
    /\ applied[1][2].kind = "result"
    /\ firstFired[2] = "timer"
    /\ searchState.error = RequestTooLong
    /\ searchState.meals = EmptyMeals
    /\ ~searchState.loading

(***************************************************************************)
(* Further claims about the API client, checked under SpecApi.             *)
(***************************************************************************)
\* C23: a searchRecipes by name, ingredient or area whose request is
\* answered with the null marker or an empty list has returned the empty
\* list, not an error, and has issued no request besides that one.
C23_NoMatchIsEmptyResult ==
    (/\ call.op = "search"
     /\ call.params /= NoParams
     /\ requests[1].done
     /\ requests[1].resp.ok
     /\ requests[1].resp.isNull \/ requests[1].resp.meals = <<>>) =>
        /\ outcome = Ok(<<>>)
        /\ Len(requests) = 1

\* An ingredient search was answered with the null marker.
C23_Witness ==
    /\ call.op = "search"
    /\ call.params = [name |-> "", ingredient |-> "beef", area |-> ""]
    /\ requests = <<[endpoint |-> "filter.php?i", arg |-> "beef", done |-> TRUE,
                     resp |-> NullResp]>>
    /\ outcome = Ok(<<>>)

(***************************************************************************)
(* Further claims about navigation, checked under SpecNav.                 *)
(***************************************************************************)
\* C29: whatever route the application was loaded on, a stored previous
\* route is never a detail route, and the route a goBack() call has just
\* moved to is never a detail route.
C29_PreviousIsNeverDetail ==
    /\ prevPath.stored => ~IsDetail(prevPath.path)
    /\ (navCalls /= <<>> /\ navCalls[Len(navCalls)] = WentBack) =>
           ~IsDetail(currentPath)

\* Loaded on the search route, the application moved to one detail route,
\* from there to another, and back: to the search route.
C29_Witness ==
    /\ navCalls = <<Navigated(DetailRoute("m1")), Navigated(DetailRoute("m2")),
                    WentBack>>
    /\ currentPath = SearchRoute
    /\ prevPath = NoPrev

(***************************************************************************)
(* Further claims about useFavourites, checked under SpecFavForeign.       *)
(***************************************************************************)
\* C28: the first run of the hook, which makes no mutation, leaves the slot
\* exactly as it found it, also when the slot could not be read.
C28_StartLeavesSlot ==
    [][\A readOk, writeOk \in BOOLEAN :
          (Start(readOk, writeOk) \/ Reload(readOk, writeOk)) =>
              storage' = storage]_vars

(***************************************************************************)
(* Claims about overlapping submissions, checked under SpecSearch.         *)
(***************************************************************************)
\* The result list and the error a session shows, and those a settled
\* promise stands for.
ShownOutcome(session) == [meals |-> session.meals, error |-> session.error]
OutcomeOf(settled, kind) ==
    IF settled.tag = "fulfilled"
      THEN [meals |-> settled.val, error |-> NoError]
      ELSE [meals |-> EmptyMeals, error |-> MessageOr(settled.val, kind)]

\* C24: the step in which a submission applies its result or error makes
\* the session show that submission's outcome, whichever other submissions,
\* earlier or later ones, are in flight or have completed; and between such
\* steps the result list and the error change only by the loading-start of
\* a new submission.  So once all have settled the session shows the
\* outcome of the one that settled last.
C24_LastSettledWins ==
    [][/\ \A c \in Calls :
             (Len(applied[c]) = 1 /\ Len(applied'[c]) = 2) =>
                 ShownOutcome(searchState') = OutcomeOf(result[c], consumer[c].kind)
       /\ applied' = applied =>
             ShownOutcome(searchState') = ShownOutcome(searchState)]_vars

\* Both submissions have completed, the second with the list v2, and the
\* session shows the list v1 of the first: the first settled last.
C24_Witness ==
    /\ consumer[1].stage = "done" /\ consumer[2].stage = "done"
    /\ result[1] = Fulfilled("v1")
    /\ result[2] = Fulfilled("v2")
    /\ ShownOutcome(searchState) = [meals |-> "v1", error |-> NoError]

\* C26: while some submission has applied its loading-start and not yet its
\* result or error, the session's loading flag is true.
C26_LoadingWhileInFlight ==
    (\E c \in Calls : Len(applied[c]) = 1) => searchState.loading

(***************************************************************************)
(* Claims about the search page with its form, checked under               *)
(* SpecSearchPage.                                                         *)
(***************************************************************************)
\* C30: whenever the session holds an error, its result list is empty and
\* its loading flag is false.
C30_ErrorMeansEmptyAndIdle ==
    searchState.error /= NoError =>
        (searchState.meals = EmptyMeals /\ ~searchState.loading)

\* The second submission had shown its list when the first one failed, and
\* the name was edited afterwards.
C30_Witness ==
    /\ consumer[1].stage = "done" /\ consumer[2].stage = "done"
    /\ result[2].tag = "fulfilled"
    /\ result[1] = Rejected("e1")
    /\ searchState.error = "e1"
    /\ searchState.name = "chicken"

(***************************************************************************)
(* Claims about the application as a whole, checked under SpecApp.         *)
(***************************************************************************)
\* C22: every navigate and goBack step leaves the search session, in the
\* state and as rendered, and the favourites list, in the state, as
\* rendered and as stored, exactly as they were.
C22_NavigationKeepsSession ==
    [][(goBack \/ \E path \in Routes : navigate(path)) =>
          /\ searchState' = searchState
          /\ shownSession' = shownSession
          /\ favourites' = favourites
          /\ shown' = shown
          /\ storage' = storage]_vars

\* The application is on a detail route it entered from the search page,
\* with the session the search page left and a favourite in the list.
C22_Witness ==
    /\ currentPath = DetailRoute("m1")
    /\ prevPath = Stored(SearchRoute)
    /\ searchState = [InitialSession EXCEPT !.name = "chicken", !.meals = "v1",
                                             !.isInitial = FALSE]
    /\ favourites = <<Meal("m2")>>

(***************************************************************************)
(* Claims about the Home page, checked under SpecHome.                     *)
(***************************************************************************)
\* C27: under any interleaving of the initial load and reloads, Home never
\* holds an error together with a non-empty list.
C27_HomeErrorExcludesList ==
    ~(home.error /= NoError /\ home.meals /= EmptyMeals)

(***************************************************************************)
(* Claims about the RecipeDetail page, checked under SpecDetailLive.       *)
(***************************************************************************)
\* C25: a detail view that is loading eventually is not loading any more,
\* whether or not its request is ever answered, unless the user leaves the
\* page first.
C25_DetailLeavesLoading ==
    (detail.mounted /\ detail.loading) ~> (~detail.mounted \/ ~detail.loading)

====
